---- MODULE Spec2Model ----
(***************************************************************************)
(* Model of the email-automation demo:                                     *)
(*   - the two Next.js routes that forward to the AI backend with a        *)
(*     three-attempt retry loop (email-preview GET, send-email POST);      *)
(*   - the DemoPage component: lead list, selection, single preview/send   *)
(*     and the batch sequencer handleBatchSend.                            *)
(* The routes are modelled twice from the same step operators: step by     *)
(* step (SpecForwarder) and folded into the set of answers a route can     *)
(* give (used by the page, Spec). SpecBatchSettles is Spec with weak        *)
(* fairness of the awaited steps of the batch loop. SpecSettings is the    *)
(* batch with the generation controls, SpecModal the preview modal over    *)
(* every lead, SpecBackend the batch with its fetches served by the        *)
(* routes step by step.                                                    *)
(***************************************************************************)
EXTENDS Integers, Sequences, FiniteSets, TLC

\* ------------------------------------------------------------------ bounds
NumLeads == 2

\* ------------------------------------------------------ program constants
MaxAttempts == 3
SuggestionCap == 3

\* ------------------------------------------------------------ value sets
ErrTexts == {"e1", "e2"}
\* Numbers of variants a backend answer can carry.
VariantCounts == {0, 1, 4}
\* Leads the user previews and sends one at a time (all leads can be in a batch).
SingleLeads == {1}
NoError == [kind |-> "none", text |-> "none"]
RetriesExhausted == [kind |-> "exhausted", text |-> "none"]
ParseError == [kind |-> "parse", text |-> "none"]
TypeError == [kind |-> "type", text |-> "none"]

\* Status lines of non-2xx backend answers (the first part of the error
\* message the route builds): one 4xx, one 5xx.
ErrStatuses == {"404", "503"}

\* What one backend call can do: answer 2xx, answer non-2xx, or fail at
\* transport level (fetch rejects) with an error text.
AttemptOutcomes ==
    {[kind |-> "ok", text |-> "none"]}
      \cup [kind : {"status"}, text : ErrStatuses]
      \cup [kind : {"transport"}, text : ErrTexts]

\* Body of a 2xx backend answer. variants = -1: no variants field.
GenerateBodies ==
    [parse : {"bad"}, variants : {-1}, ok : {"absent"}, status : {"absent"}]
      \cup [parse : {"obj"}, variants : {-1} \cup VariantCounts,
            ok : {"absent"}, status : {"absent"}]

SendBodies ==
    [parse : {"bad", "null"}, variants : {-1}, ok : {"absent"}, status : {"absent"}]
      \cup [parse : {"obj"}, variants : {-1},
            ok : {"absent", "true", "false"},
            status : {"absent", "success", "error", "empty"}]

NoBody == [parse |-> "none", variants |-> -1, ok |-> "absent", status |-> "absent"]

Bodies(route) == IF route = "generate" THEN GenerateBodies ELSE SendBodies

Min(a, b) == IF a < b THEN a ELSE b

\* Emails of the leads app/api/leads lists, by id.
LeadEmails ==
    <<"john@example.com", "sarah@example.com", "carlos@example.com",
      "aisha@example.com", "mark@example.com">>

EmailOf(id) == LeadEmails[id]

\* recipient_email of every body send-email forwards.
TestRecipient == "test@example.com"

\* Cap of the variants email-preview asks the backend for.
VariantsCap == 5

\* consent_snapshot of an incoming send-email body: an object with source,
\* captured_at and exact_text, an object lacking one of them, or no field.
Consents == {"full", "partial", "absent"}

\* variants parameter of an incoming email-preview request: Number() of
\* the query string, any integer the caller writes.
RequestedVariants == {-2, 0, 1, 3, 7}

\* What the routes read of an incoming request.
NoRequest == [leadId |-> 0, consent |-> "absent", variants |-> 0]

GenerateRequests ==
    [leadId : 1..NumLeads, consent : {"absent"}, variants : RequestedVariants]

SendRequests == [leadId : 1..NumLeads, consent : Consents, variants : {0}]

Requests(route) == IF route = "generate" THEN GenerateRequests ELSE SendRequests

\* backendRequestBody, as far as it depends on the request.
NoForward ==
    [recipient_email |-> "none", consent_snapshot |-> "absent", lead |-> 0,
     variants |-> 0]

BackendRequestBody(route, data) ==
    IF route = "generate"
    THEN [NoForward EXCEPT !.lead = data.leadId,
                           !.variants = Min(data.variants, VariantsCap)]
    ELSE [NoForward EXCEPT !.recipient_email = TestRecipient,
                           !.consent_snapshot = data.consent]

\* --------------------------------------------------------------- routes
\* State of one route invocation (email-preview GET or send-email POST).
NoResult ==
    [status |-> 0, parse |-> "none", variants |-> -1, suggestions |-> -1,
     ok |-> "absent", bstatus |-> "absent", details |-> NoError]

RouteIdle ==
    [route |-> "none", pc |-> "idle", i |-> 0, response |-> "undefined",
     lastError |-> NoError, attempts |-> 0, delays |-> 0, log |-> <<>>,
     body |-> NoBody, result |-> NoResult, seen |-> NoResult,
     verdict |-> "none", single |-> "none", data |-> NoRequest,
     forward |-> NoForward]

\* catch block of the routes: status 500, details = message of the error.
ErrorResponse(route, err) ==
    [status |-> 500, parse |-> "obj", variants |-> -1, suggestions |-> -1,
     ok |-> IF route = "send" THEN "false" ELSE "absent",
     bstatus |-> "absent", details |-> err]

\* RouteBegin with req.json() outside the try: the rejection escapes the
\* handler and the route gives no answer of its own.
RouteBeginParseOutsideTry(route, reqOk, data) ==
    IF route = "send" /\ ~reqOk
    THEN [RouteIdle EXCEPT !.route = route, !.pc = "done"]
    ELSE [RouteIdle EXCEPT !.route = route, !.pc = "fetch", !.data = data,
                           !.forward = BackendRequestBody(route, data)]

\* Entry of the handler up to the first fetch: the request is read and
\* backendRequestBody built. reqOk = FALSE: the incoming request body of
\* send-email is not JSON, req.json() rejects.
RouteBegin(route, reqOk, data) ==
    IF route = "send" /\ ~reqOk
    THEN [RouteIdle EXCEPT !.route = route, !.pc = "done",
                           !.result = ErrorResponse(route, ParseError)]
    ELSE [RouteIdle EXCEPT !.route = route, !.pc = "fetch", !.data = data,
                           !.forward = BackendRequestBody(route, data)]

\* AttemptStep that takes a 4xx answer as final and leaves the loop.
AttemptStepGivesUpOn4xx(r, o) ==
    LET r1 == [r EXCEPT !.attempts = @ + 1, !.log = Append(@, o)]
    IN  CASE o.kind = "ok" ->
               [r1 EXCEPT !.response = "ok", !.lastError = NoError, !.pc = "after"]
          [] o.kind = "status" ->
               [r1 EXCEPT !.response = "notok",
                          !.lastError = [kind |-> "backend", text |-> o.text],
                          !.pc = IF o.text = "404" THEN "after" ELSE "sleep"]
          [] OTHER ->
               [r1 EXCEPT !.lastError = [kind |-> "transport", text |-> o.text],
                          !.pc = "sleep"]

\* AttemptStep without the break: a 2xx answer is followed by the delay and
\* the next attempt.
AttemptStepNoBreak(r, o) ==
    LET r1 == [r EXCEPT !.attempts = @ + 1, !.log = Append(@, o)]
    IN  CASE o.kind = "ok" ->
               [r1 EXCEPT !.response = "ok", !.lastError = NoError, !.pc = "sleep"]
          [] o.kind = "status" ->
               [r1 EXCEPT !.response = "notok",
                          !.lastError = [kind |-> "backend", text |-> o.text],
                          !.pc = "sleep"]
          [] OTHER ->
               [r1 EXCEPT !.lastError = [kind |-> "transport", text |-> o.text],
                          !.pc = "sleep"]

\* AttemptStep that keeps the first error instead of the last.
AttemptStepFirstError(r, o) ==
    LET r1 == [r EXCEPT !.attempts = @ + 1, !.log = Append(@, o)]
        keep(e) == IF r.lastError = NoError THEN e ELSE r.lastError
    IN  CASE o.kind = "ok" ->
               [r1 EXCEPT !.response = "ok", !.lastError = NoError, !.pc = "after"]
          [] o.kind = "status" ->
               [r1 EXCEPT !.response = "notok",
                          !.lastError = keep([kind |-> "backend", text |-> o.text]),
                          !.pc = "sleep"]
          [] OTHER ->
               [r1 EXCEPT !.lastError = keep([kind |-> "transport", text |-> o.text]),
                          !.pc = "sleep"]

\* One pass of the body of `for (let i = 0; i < 3; i++)` up to the delay.
AttemptStep(r, o) ==
    LET r1 == [r EXCEPT !.attempts = @ + 1, !.log = Append(@, o)]
    IN  CASE o.kind = "ok" ->
               [r1 EXCEPT !.response = "ok", !.lastError = NoError, !.pc = "after"]
          [] o.kind = "status" ->
               [r1 EXCEPT !.response = "notok",
                          !.lastError = [kind |-> "backend", text |-> o.text],
                          !.pc = "sleep"]
          [] OTHER ->
               [r1 EXCEPT !.lastError = [kind |-> "transport", text |-> o.text],
                          !.pc = "sleep"]

\* SleepStep without the wait.
SleepStepNoDelay(r) ==
    [r EXCEPT !.i = @ + 1,
              !.pc = IF r.i + 1 < MaxAttempts THEN "fetch" ELSE "after"]

\* SleepStep of a loop that runs while i <= 3: a fourth attempt.
SleepStepFourthAttempt(r) ==
    [r EXCEPT !.delays = @ + 1, !.i = @ + 1,
              !.pc = IF r.i + 1 <= MaxAttempts THEN "fetch" ELSE "after"]

\* await setTimeout(1000), then i++ and the loop test.
SleepStep(r) ==
    [r EXCEPT !.delays = @ + 1, !.i = @ + 1,
              !.pc = IF r.i + 1 < MaxAttempts THEN "fetch" ELSE "after"]

\* Code after the loop: the throw, response.json() and the answer.
\* generate: data.variants.slice throws a TypeError without a variants list.
FinishStep(r, body) ==
    IF r.response # "ok"
    THEN [r EXCEPT !.pc = "done",
            !.result = ErrorResponse(r.route,
                          IF r.lastError = NoError THEN RetriesExhausted
                          ELSE r.lastError)]
    ELSE LET r1 == [r EXCEPT !.pc = "done", !.body = body]
         IN  IF body.parse = "bad"
             THEN [r1 EXCEPT !.result = ErrorResponse(r.route, ParseError)]
             ELSE IF r.route = "generate"
             THEN IF body.variants < 0
                  THEN [r1 EXCEPT !.result = ErrorResponse(r.route, TypeError)]
                  ELSE [r1 EXCEPT
                         !.result = [NoResult EXCEPT !.status = 200, !.parse = "obj",
                                       !.variants = body.variants,
                                       !.suggestions = Min(body.variants, SuggestionCap)]]
             ELSE [r1 EXCEPT
                    !.result = [NoResult EXCEPT !.status = 200, !.parse = body.parse,
                                  !.ok = body.ok, !.bstatus = body.status]]

\* The whole handler run against a backend that would answer the attempts
\* with b[1], b[2], b[3] and a 2xx with `body`.
RECURSIVE RunRoute(_, _, _)
RunRoute(r, b, body) ==
    CASE r.pc = "fetch" -> RunRoute(AttemptStep(r, b[r.attempts + 1]), b, body)
      [] r.pc = "sleep" -> RunRoute(SleepStep(r), b, body)
      [] r.pc = "after" -> RunRoute(FinishStep(r, body), b, body)
      [] OTHER -> r

BackendBehaviours == [1..MaxAttempts -> AttemptOutcomes]

\* What the page uses of a route's answer (the error details are only logged).
Answer(r) == [r.result EXCEPT !.details = NoError]

RouteAnswers(route) ==
    {Answer(RunRoute(RouteBegin(route, TRUE, data), b, body)) :
        data \in Requests(route), b \in BackendBehaviours,
        body \in Bodies(route)}

GenerateAnswers == RouteAnswers("generate")
SendAnswers == RouteAnswers("send")

\* ----------------------------------------------------------------- state
VARIABLES
    rt,               \* a route invocation, step by step (SpecForwarder)
    leads,            \* useState<Lead[]>: sequence of [id, status]
    loadingLeads,
    selectedLead,     \* id of the lead in the preview modal, 0 = null
    preview,          \* PreviewResponse or NullPreview
    loadingPreview,
    sending,
    selectedLeadIds,  \* Set<number>
    batchSending,
    batchProgress,
    batchResults,
    batch,            \* locals of the running handleBatchSend
    net,              \* requests of the page that are in flight
    outcomes,         \* per-lead outcomes of the current batch, as recorded
    lastSend,         \* per lead of the loaded list: how its latest completed
                      \* send attempt ended
    tone,             \* useState<Tone>
    variantsCount,    \* useState<number>: the Variations select
    creativity        \* useState<number>, in tenths (0.6 = 6)

\* The parameters of the generation.
settings == <<tone, variantsCount, creativity>>

pageVars ==
    <<leads, loadingLeads, selectedLead, preview, loadingPreview, sending,
      selectedLeadIds, batchSending, batchProgress, batchResults, batch, net,
      outcomes, lastSend, settings>>

vars == <<rt, pageVars>>

LeadIds == 1..NumLeads

\* The list app/api/leads answers with: ids in order, no status.
FreshLeads == [k \in 1..NumLeads |-> [id |-> k, status |-> "none"]]

NullPreview == [lead |-> 0, variants |-> -1]
NullProgress == [total |-> -1, completed |-> 0, failed |-> 0, current |-> 0]
NullResults == [sent |-> 0, failed |-> 0, total |-> -1]

\* Values of the controls: two TONES, two options of the Variations select,
\* two positions of the creativity slider (in tenths).
Tones == {"Friendly", "Professional"}
UiVariantCounts == {3, 5}
Creativities == {6, 9}

\* variants of the preview requests of a batch: String(1).
BatchVariants == 1

\* const q of a loop pass, before the first pass.
NoQuery == [tone |-> "none", variants |-> 0, creativity |-> -1]

\* What the backend has received for each lead during the batch: requests
\* to /generate, requests to /send, and /send requests it answered 2xx.
NoBackend == [id \in LeadIds |-> [generate |-> 0, send |-> 0, sendOk |-> 0]]

\* tone, creativity: the values of the render handleBatchSend was called in.
BatchIdle ==
    [pc |-> "idle", i |-> 0, selectedLeads |-> <<>>, sentCount |-> 0,
     failedCount |-> 0, input |-> {}, gen |-> "none", sends |-> 0,
     tone |-> "none", creativity |-> -1, q |-> NoQuery,
     backend |-> NoBackend]

LeadsRequest == [by |-> "leads", kind |-> "leads", lead |-> 0]

\* No send attempt has completed for any lead of the list.
NoSends == [id \in LeadIds |-> "none"]

Init ==
    /\ rt = RouteIdle
    /\ leads = <<>>
    /\ loadingLeads = TRUE          \* useEffect: fetchLeads() on mount
    /\ selectedLead = 0
    /\ preview = NullPreview
    /\ loadingPreview = FALSE
    /\ sending = FALSE
    /\ selectedLeadIds = {}
    /\ batchSending = FALSE
    /\ batchProgress = NullProgress
    /\ batchResults = NullResults
    /\ batch = BatchIdle
    /\ net = {LeadsRequest}
    /\ outcomes = <<>>
    /\ lastSend = NoSends
    /\ tone = "Friendly"
    /\ variantsCount = 3
    /\ creativity = 6

\* ------------------------------------------------------------- the page
\* What a fetch of the page can come back with: the route's answer, a
\* rejected fetch (status 0), or a response that is not the route's JSON.
Rejected == [NoResult EXCEPT !.status = 0]
Garbled(st) == [NoResult EXCEPT !.status = st, !.parse = "bad"]

PageAnswers(route) ==
    (IF route = "generate" THEN GenerateAnswers ELSE SendAnswers)
      \cup {Rejected} \cup {Garbled(st) : st \in {200, 502}}

ResOk(res) == res.status >= 200 /\ res.status <= 299

Present(id) == \E k \in DOMAIN leads : leads[k].id = id

\* prev.map((l) => (l.id === id ? { ...l, status } : l))
SetStatus(ls, id, st) ==
    [k \in DOMAIN ls |-> IF ls[k].id = id THEN [ls[k] EXCEPT !.status = st]
                         ELSE ls[k]]

\* --- fetchLeads
FetchLeadsResponse ==
    /\ LeadsRequest \in net
    /\ \E ok \in BOOLEAN :
          /\ leads' = IF ok THEN FreshLeads ELSE leads
          /\ lastSend' = IF ok THEN NoSends ELSE lastSend
    /\ loadingLeads' = FALSE
    /\ net' = net \ {LeadsRequest}
    /\ UNCHANGED <<rt, settings, selectedLead, preview, loadingPreview, sending,
                   selectedLeadIds, batchSending, batchProgress, batchResults,
                   batch, outcomes>>

\* Refresh button, disabled while loadingLeads.
fetchLeads ==
    /\ ~loadingLeads
    /\ loadingLeads' = TRUE
    /\ net' = net \cup {LeadsRequest}
    /\ UNCHANGED <<rt, settings, leads, selectedLead, preview, loadingPreview, sending,
                   selectedLeadIds, batchSending, batchProgress, batchResults,
                   batch, outcomes, lastSend>>

\* --- selection
handleSelectLead ==
    /\ \E id \in LeadIds :
          /\ Present(id)
          /\ selectedLeadIds' = IF id \in selectedLeadIds
                                THEN selectedLeadIds \ {id}
                                ELSE selectedLeadIds \cup {id}
    /\ UNCHANGED <<rt, settings, leads, loadingLeads, selectedLead, preview,
                   loadingPreview, sending, batchSending, batchProgress,
                   batchResults, batch, net, outcomes, lastSend>>

handleSelectAll ==
    /\ selectedLeadIds' = IF Cardinality(selectedLeadIds) = Len(leads)
                          THEN {}
                          ELSE {leads[k].id : k \in DOMAIN leads}
    /\ selectedLeadIds' # selectedLeadIds
    /\ UNCHANGED <<rt, settings, leads, loadingLeads, selectedLead, preview,
                   loadingPreview, sending, batchSending, batchProgress,
                   batchResults, batch, net, outcomes, lastSend>>

\* "Clear selection" button.
ClearSelection ==
    /\ selectedLeadIds # {}
    /\ selectedLeadIds' = {}
    /\ UNCHANGED <<rt, settings, leads, loadingLeads, selectedLead, preview,
                   loadingPreview, sending, batchSending, batchProgress,
                   batchResults, batch, net, outcomes, lastSend>>

\* The x button of the batch summary.
DismissResults ==
    /\ batchResults # NullResults
    /\ batchResults' = NullResults
    /\ UNCHANGED <<rt, settings, leads, loadingLeads, selectedLead, preview,
                   loadingPreview, sending, selectedLeadIds, batchSending,
                   batchProgress, batch, net, outcomes, lastSend>>

\* --- tone buttons, Variations select, creativity slider
setTone ==
    /\ \E t \in Tones : t # tone /\ tone' = t
    /\ UNCHANGED <<rt, leads, loadingLeads, selectedLead, preview,
                   loadingPreview, sending, selectedLeadIds, batchSending,
                   batchProgress, batchResults, batch, net, outcomes, lastSend,
                   variantsCount, creativity>>

setVariantsCount ==
    /\ \E n \in UiVariantCounts : n # variantsCount /\ variantsCount' = n
    /\ UNCHANGED <<rt, leads, loadingLeads, selectedLead, preview,
                   loadingPreview, sending, selectedLeadIds, batchSending,
                   batchProgress, batchResults, batch, net, outcomes, lastSend,
                   tone, creativity>>

setCreativity ==
    /\ \E c \in Creativities : c # creativity /\ creativity' = c
    /\ UNCHANGED <<rt, leads, loadingLeads, selectedLead, preview,
                   loadingPreview, sending, selectedLeadIds, batchSending,
                   batchProgress, batchResults, batch, net, outcomes, lastSend,
                   tone, variantsCount>>

\* --- single preview and send
PreviewRequest(id) == [by |-> "preview", kind |-> "generate", lead |-> id]
SendRequest(id) == [by |-> "single", kind |-> "send", lead |-> id]

\* The preview fetch started by the Regenerate button.
RegenerateRequest(id) == [PreviewRequest(id) EXCEPT !.by = "regenerate"]

PreviewRequests == {r \in net : r.by \in {"preview", "regenerate"}}

\* handlePreview(lead) up to the fetch; req is the request of the fetch.
PreviewCall(id, req) ==
    /\ \A r \in PreviewRequests : r.lead # id
    /\ selectedLead' = id
    /\ preview' = NullPreview
    /\ loadingPreview' = TRUE
    /\ net' = net \cup {req}
    /\ UNCHANGED <<rt, settings, leads, loadingLeads, sending, selectedLeadIds,
                   batchSending, batchProgress, batchResults, batch, outcomes,
                   lastSend>>

PreviewStart(id) == PreviewCall(id, PreviewRequest(id))

handlePreview ==
    \E id \in SingleLeads : Present(id) /\ PreviewStart(id)

\* The Preview button of any row of the lead table, clicked while the
\* modal is closed (its backdrop covers the table).
handlePreviewAny ==
    /\ selectedLead = 0
    /\ \E id \in LeadIds : Present(id) /\ PreviewStart(id)

\* Regenerate button: shown with a preview, disabled while loadingPreview.
handleRegenerate ==
    /\ selectedLead # 0
    /\ preview # NullPreview
    /\ ~loadingPreview
    /\ PreviewCall(selectedLead, RegenerateRequest(selectedLead))

\* if (!res.ok) throw; data = await res.json(): the variants shown, -1 = throw
PreviewShown(res) ==
    IF ResOk(res) /\ res.parse = "obj" THEN res.variants ELSE -1

PreviewsShown == {PreviewShown(res) : res \in PageAnswers("generate")}

PreviewResponse ==
    \E req \in PreviewRequests, shown \in PreviewsShown :
       /\ preview' = IF shown >= 0
                     THEN [lead |-> req.lead, variants |-> shown]
                     ELSE preview
       /\ loadingPreview' = FALSE
       /\ net' = net \ {req}
       /\ UNCHANGED <<rt, settings, leads, loadingLeads, selectedLead, sending,
                      selectedLeadIds, batchSending, batchProgress,
                      batchResults, batch, outcomes, lastSend>>

\* Send Email button: shown with a preview, disabled while sending or
\* loadingPreview. A preview without variants throws inside the try.
handleSend ==
    /\ selectedLead # 0
    /\ preview # NullPreview
    /\ ~sending
    /\ ~loadingPreview
    /\ preview.variants >= 1
    /\ sending' = TRUE
    /\ net' = net \cup {SendRequest(selectedLead)}
    /\ UNCHANGED <<rt, settings, leads, loadingLeads, selectedLead, preview,
                   loadingPreview, selectedLeadIds, batchSending,
                   batchProgress, batchResults, batch, outcomes, lastSend>>

\* if (!res.ok || !data.ok) throw
SingleSendSucceeded(res) ==
    /\ ResOk(res)
    /\ res.parse = "obj"
    /\ res.ok = "true"

SingleSendVerdicts == {SingleSendSucceeded(res) : res \in PageAnswers("send")}

SendResponse ==
    \E req \in net, succeeded \in SingleSendVerdicts :
       /\ req.by = "single"
       /\ IF succeeded
          THEN /\ leads' = SetStatus(leads, req.lead, "sent")
               /\ selectedLead' = 0
               /\ preview' = NullPreview
          ELSE UNCHANGED <<leads, selectedLead, preview>>
       /\ sending' = FALSE
       /\ net' = net \ {req}
       /\ lastSend' = [lastSend EXCEPT
                          ![req.lead] = IF succeeded THEN "sent" ELSE "failed"]
       /\ UNCHANGED <<rt, settings, loadingLeads, loadingPreview, selectedLeadIds,
                      batchSending, batchProgress, batchResults, batch,
                      outcomes>>

\* Close button and backdrop of the modal.
CloseModal ==
    /\ selectedLead # 0
    /\ selectedLead' = 0
    /\ preview' = NullPreview
    /\ UNCHANGED <<rt, settings, leads, loadingLeads, loadingPreview, sending,
                   selectedLeadIds, batchSending, batchProgress, batchResults,
                   batch, net, outcomes, lastSend>>

\* --- batch send
BatchRequest(kind, id) == [by |-> "batch", kind |-> kind, lead |-> id]

\* How a generate answer looks to the batch: usable, empty or failed.
GenClass(res) ==
    IF ResOk(res) /\ res.parse = "obj"
    THEN IF res.variants >= 1 THEN "ok" ELSE "empty"
    ELSE "failed"

\* SelectedLeads that lists the selected leads last to first.
SelectedLeadsReversed(ls, ids) ==
    LET sel == SelectSeq(ls, LAMBDA l : l.id \in ids)
    IN  [k \in DOMAIN sel |-> sel[Len(sel) + 1 - k].id]

\* leads.filter((l) => selectedLeadIds.has(l.id)), as the list of ids
SelectedLeads(ls, ids) ==
    LET sel == SelectSeq(ls, LAMBDA l : l.id \in ids)
    IN  [k \in DOMAIN sel |-> sel[k].id]

\* BatchFinish without setBatchSending(false).
BatchFinishKeepsSending(b) ==
    /\ batchProgress' = NullProgress
    /\ batchSending' = batchSending
    /\ batchResults' = [sent |-> b.sentCount, failed |-> b.failedCount,
                        total |-> Len(b.selectedLeads)]
    /\ selectedLeadIds' = {}
    /\ batch' = [BatchIdle EXCEPT !.input = b.input]
    /\ net' = net

\* The code after the loop.
BatchFinish(b) ==
    /\ batchProgress' = NullProgress
    /\ batchSending' = FALSE
    /\ batchResults' = [sent |-> b.sentCount, failed |-> b.failedCount,
                        total |-> Len(b.selectedLeads)]
    /\ selectedLeadIds' = {}
    /\ batch' = [BatchIdle EXCEPT !.input = b.input]
    /\ net' = net

\* BatchIterate that reads the controls as they are now, the Variations
\* select included.
BatchIterateLiveSettings(b) ==
    /\ batchProgress' = [total |-> Len(b.selectedLeads),
                         completed |-> b.sentCount, failed |-> b.failedCount,
                         current |-> b.selectedLeads[b.i + 1]]
    /\ batch' = [b EXCEPT !.pc = "generate", !.gen = "none", !.sends = 0,
                          !.q = [tone |-> tone, variants |-> variantsCount,
                                 creativity |-> creativity]]
    /\ net' = net \cup {BatchRequest("generate", b.selectedLeads[b.i + 1])}

\* Top of the loop body for index b.i: progress marker, then the preview
\* fetch with the query q.
BatchIterate(b) ==
    /\ batchProgress' = [total |-> Len(b.selectedLeads),
                         completed |-> b.sentCount, failed |-> b.failedCount,
                         current |-> b.selectedLeads[b.i + 1]]
    /\ batch' = [b EXCEPT !.pc = "generate", !.gen = "none", !.sends = 0,
                          !.q = [tone |-> b.tone, variants |-> BatchVariants,
                                 creativity |-> b.creativity]]
    /\ net' = net \cup {BatchRequest("generate", b.selectedLeads[b.i + 1])}

\* handleBatchSend without setBatchResults(null): the tally of the batch
\* before stays on screen while the new batch runs.
handleBatchSendKeepsTally ==
    /\ selectedLeadIds # {}
    /\ ~batchSending
    /\ LET b == [BatchIdle EXCEPT
                   !.selectedLeads = SelectedLeads(leads, selectedLeadIds),
                   !.input = selectedLeadIds,
                   !.tone = tone, !.creativity = creativity]
       IN  IF Len(b.selectedLeads) > 0
           THEN /\ batchSending' = TRUE
                /\ batchResults' = batchResults
                /\ BatchIterate(b)
                /\ UNCHANGED selectedLeadIds
           ELSE BatchFinish(b)
    /\ outcomes' = <<>>
    /\ UNCHANGED <<rt, settings, leads, loadingLeads, selectedLead, preview,
                   loadingPreview, sending, lastSend>>

\* handleBatchSend behind a button that is not disabled while batchSending:
\* a click during a batch starts a second loop over the same state.
handleBatchSendNotDisabled ==
    /\ selectedLeadIds # {}
    /\ LET b == [BatchIdle EXCEPT
                   !.selectedLeads = SelectedLeads(leads, selectedLeadIds),
                   !.input = selectedLeadIds,
                   !.tone = tone, !.creativity = creativity]
       IN  IF Len(b.selectedLeads) > 0
           THEN /\ batchSending' = TRUE
                /\ batchResults' = NullResults
                /\ BatchIterate(b)
                /\ UNCHANGED selectedLeadIds
           ELSE BatchFinish(b)
    /\ outcomes' = <<>>
    /\ UNCHANGED <<rt, settings, leads, loadingLeads, selectedLead, preview,
                   loadingPreview, sending, lastSend>>

\* Send button of the lead table: shown with a selection, disabled while
\* batchSending.
handleBatchSend ==
    /\ selectedLeadIds # {}
    /\ ~batchSending
    /\ LET b == [BatchIdle EXCEPT
                   !.selectedLeads = SelectedLeads(leads, selectedLeadIds),
                   !.input = selectedLeadIds,
                   !.tone = tone, !.creativity = creativity]
       IN  IF Len(b.selectedLeads) > 0
           THEN /\ batchSending' = TRUE
                /\ batchResults' = NullResults
                /\ BatchIterate(b)
                /\ UNCHANGED selectedLeadIds
           ELSE BatchFinish(b)
    /\ outcomes' = <<>>
    /\ UNCHANGED <<rt, settings, leads, loadingLeads, selectedLead, preview,
                   loadingPreview, sending, lastSend>>

\* BatchRecord whose catch forgets failedCount++.
BatchRecordDropsFailure(b, succeeded) ==
    LET lead == b.selectedLeads[b.i + 1]
        st == IF succeeded THEN "sent" ELSE "failed"
        sent == b.sentCount + (IF st = "sent" THEN 1 ELSE 0)
        failed == b.failedCount
    IN  /\ leads' = SetStatus(leads, lead, st)
        /\ batch' = [b EXCEPT !.pc = "delay", !.sentCount = sent,
                              !.failedCount = failed]
        /\ batchProgress' =
              [total |-> Len(b.selectedLeads), completed |-> sent,
               failed |-> failed,
               current |-> IF b.i < Len(b.selectedLeads) - 1
                           THEN b.selectedLeads[b.i + 2] ELSE 0]
        /\ outcomes' = Append(outcomes,
              [id |-> lead, genOk |-> (b.gen = "ok"), sends |-> b.sends,
               verdict |-> succeeded, status |-> st])
        /\ lastSend' = [lastSend EXCEPT ![lead] = st]

\* BatchRecord that fails every lead after the first failure of the batch.
BatchRecordSticky(b, succeeded) ==
    LET lead == b.selectedLeads[b.i + 1]
        st == IF succeeded /\ b.failedCount = 0 THEN "sent" ELSE "failed"
        sent == b.sentCount + (IF st = "sent" THEN 1 ELSE 0)
        failed == b.failedCount + (IF st = "failed" THEN 1 ELSE 0)
    IN  /\ leads' = SetStatus(leads, lead, st)
        /\ batch' = [b EXCEPT !.pc = "delay", !.sentCount = sent,
                              !.failedCount = failed]
        /\ batchProgress' =
              [total |-> Len(b.selectedLeads), completed |-> sent,
               failed |-> failed,
               current |-> IF b.i < Len(b.selectedLeads) - 1
                           THEN b.selectedLeads[b.i + 2] ELSE 0]
        /\ outcomes' = Append(outcomes,
              [id |-> lead, genOk |-> (b.gen = "ok"), sends |-> b.sends,
               verdict |-> succeeded, status |-> st])
        /\ lastSend' = [lastSend EXCEPT ![lead] = st]

\* BatchRecord whose catch leaves the lead's status alone (as handleSend's).
BatchRecordKeepsStatus(b, succeeded) ==
    LET lead == b.selectedLeads[b.i + 1]
        st == IF succeeded THEN "sent" ELSE "failed"
        sent == b.sentCount + (IF st = "sent" THEN 1 ELSE 0)
        failed == b.failedCount + (IF st = "failed" THEN 1 ELSE 0)
    IN  /\ leads' = IF succeeded THEN SetStatus(leads, lead, st) ELSE leads
        /\ batch' = [b EXCEPT !.pc = "delay", !.sentCount = sent,
                              !.failedCount = failed]
        /\ batchProgress' =
              [total |-> Len(b.selectedLeads), completed |-> sent,
               failed |-> failed,
               current |-> IF b.i < Len(b.selectedLeads) - 1
                           THEN b.selectedLeads[b.i + 2] ELSE 0]
        /\ outcomes' = Append(outcomes,
              [id |-> lead, genOk |-> (b.gen = "ok"), sends |-> b.sends,
               verdict |-> succeeded, status |-> st])
        /\ lastSend' = [lastSend EXCEPT ![lead] = st]

\* BatchRecord whose progress update keeps the marker on the lead just
\* processed.
BatchRecordStaleMarker(b, succeeded) ==
    LET lead == b.selectedLeads[b.i + 1]
        st == IF succeeded THEN "sent" ELSE "failed"
        sent == b.sentCount + (IF st = "sent" THEN 1 ELSE 0)
        failed == b.failedCount + (IF st = "failed" THEN 1 ELSE 0)
    IN  /\ leads' = SetStatus(leads, lead, st)
        /\ batch' = [b EXCEPT !.pc = "delay", !.sentCount = sent,
                              !.failedCount = failed]
        /\ batchProgress' =
              [total |-> Len(b.selectedLeads), completed |-> sent,
               failed |-> failed, current |-> lead]
        /\ outcomes' = Append(outcomes,
              [id |-> lead, genOk |-> (b.gen = "ok"), sends |-> b.sends,
               verdict |-> succeeded, status |-> st])
        /\ lastSend' = [lastSend EXCEPT ![lead] = st]

\* End of the loop body for one lead (the try's last lines or the catch,
\* then lines 314-323): counters, the lead's status, the progress marker;
\* the inter-lead delay starts. `outcomes` logs what was recorded.
BatchRecord(b, succeeded) ==
    LET lead == b.selectedLeads[b.i + 1]
        st == IF succeeded THEN "sent" ELSE "failed"
        sent == b.sentCount + (IF st = "sent" THEN 1 ELSE 0)
        failed == b.failedCount + (IF st = "failed" THEN 1 ELSE 0)
    IN  /\ leads' = SetStatus(leads, lead, st)
        /\ batch' = [b EXCEPT !.pc = "delay", !.sentCount = sent,
                              !.failedCount = failed]
        /\ batchProgress' =
              [total |-> Len(b.selectedLeads), completed |-> sent,
               failed |-> failed,
               current |-> IF b.i < Len(b.selectedLeads) - 1
                           THEN b.selectedLeads[b.i + 2] ELSE 0]
        /\ outcomes' = Append(outcomes,
              [id |-> lead, genOk |-> (b.gen = "ok"), sends |-> b.sends,
               verdict |-> succeeded, status |-> st])
        /\ lastSend' = [lastSend EXCEPT ![lead] = st]

\* BatchGenUsable without the variants.length === 0 test.
BatchGenUsableNoEmptyTest(res) ==
    /\ ResOk(res)
    /\ res.parse = "obj"

\* previewRes.ok, previewRes.json() and variants.length !== 0: no throw
\* before the send fetch.
BatchGenUsable(res) ==
    /\ ResOk(res)
    /\ res.parse = "obj"
    /\ res.variants # 0

\* The answers of the preview fetch, by what the batch does with them.
BatchGenVerdicts ==
    {[usable |-> BatchGenUsable(res), class |-> GenClass(res)] :
        res \in PageAnswers("generate")}

\* The preview fetch req of the batch settles with an answer of verdict v:
\* the send fetch follows, or the catch records the lead as failed.
BatchGenSettles(req, v) ==
    /\ batch.pc = "generate"
    /\ req.by = "batch"
    /\ req.kind = "generate"
    /\ LET b == [batch EXCEPT !.gen = v.class]
       IN  IF v.usable
           THEN /\ batch' = [b EXCEPT !.pc = "send", !.sends = @ + 1]
                /\ net' = (net \ {req}) \cup {BatchRequest("send", req.lead)}
                /\ UNCHANGED <<leads, batchProgress, outcomes, lastSend>>
           ELSE /\ BatchRecord(b, FALSE)
                /\ net' = net \ {req}
    /\ UNCHANGED <<settings, loadingLeads, selectedLead, preview, loadingPreview,
                   sending, selectedLeadIds, batchSending, batchResults>>

\* BatchGenResponse that does not await the send fetch: the lead is recorded
\* as sent while its send request is still in flight.
BatchGenResponseNoAwait ==
    /\ batch.pc = "generate"
    /\ \E req \in net, v \in BatchGenVerdicts :
          /\ req.by = "batch"
          /\ req.kind = "generate"
          /\ LET b == [batch EXCEPT !.gen = v.class]
             IN  IF v.usable
                 THEN /\ BatchRecord([b EXCEPT !.sends = @ + 1], TRUE)
                      /\ net' = (net \ {req})
                                  \cup {BatchRequest("send", req.lead)}
                 ELSE /\ BatchRecord(b, FALSE)
                      /\ net' = net \ {req}
    /\ UNCHANGED <<rt, settings, loadingLeads, selectedLead, preview, loadingPreview,
                   sending, selectedLeadIds, batchSending, batchResults>>

\* The preview fetch of the batch settles.
BatchGenResponse ==
    /\ \E req \in net, v \in BatchGenVerdicts : BatchGenSettles(req, v)
    /\ UNCHANGED rt

\* !sendRes.ok || sendData.ok === false ||
\*   (sendData.status && sendData.status !== "success") throws
BatchSendSucceeded(res) ==
    /\ ResOk(res)
    /\ res.parse = "obj"
    /\ res.ok # "false"
    /\ ~(res.bstatus \notin {"absent", "empty"} /\ res.bstatus # "success")

BatchSendVerdicts == {BatchSendSucceeded(res) : res \in PageAnswers("send")}

\* The send fetch req of the batch settles: the lead is recorded as sent
\* or, by the catch, as failed.
BatchSendSettles(req, succeeded) ==
    /\ batch.pc = "send"
    /\ req.by = "batch"
    /\ req.kind = "send"
    /\ BatchRecord(batch, succeeded)
    /\ net' = net \ {req}
    /\ UNCHANGED <<settings, loadingLeads, selectedLead, preview, loadingPreview,
                   sending, selectedLeadIds, batchSending, batchResults>>

\* The send fetch of the batch settles.
BatchSendResponse ==
    /\ \E req \in net, succeeded \in BatchSendVerdicts :
          BatchSendSettles(req, succeeded)
    /\ UNCHANGED rt

\* BatchDelayDone that leaves the loop after a failed lead.
BatchDelayDoneAbortOnFailure ==
    /\ batch.pc = "delay"
    /\ LET b == [batch EXCEPT !.i = @ + 1]
       IN  IF b.i < Len(b.selectedLeads)
              /\ outcomes[Len(outcomes)].status # "failed"
           THEN /\ BatchIterate(b)
                /\ UNCHANGED <<selectedLeadIds, batchSending, batchResults>>
           ELSE BatchFinish(b)
    /\ UNCHANGED <<rt, settings, leads, loadingLeads, selectedLead, preview,
                   loadingPreview, sending, outcomes, lastSend>>

\* The 500 ms timer fires: next lead, or the end of the batch.
BatchDelayDone ==
    /\ batch.pc = "delay"
    /\ LET b == [batch EXCEPT !.i = @ + 1]
       IN  IF b.i < Len(b.selectedLeads)
           THEN /\ BatchIterate(b)
                /\ UNCHANGED <<selectedLeadIds, batchSending, batchResults>>
           ELSE BatchFinish(b)
    /\ UNCHANGED <<rt, settings, leads, loadingLeads, selectedLead, preview,
                   loadingPreview, sending, outcomes, lastSend>>

\* ------------------------------------------------- routes, step by step
RouteStart ==
    /\ rt.pc = "idle"
    /\ \E route \in {"generate", "send"}, reqOk \in BOOLEAN :
          \E data \in Requests(route) : rt' = RouteBegin(route, reqOk, data)
    /\ UNCHANGED pageVars

RouteAttempt ==
    /\ rt.pc = "fetch"
    /\ \E o \in AttemptOutcomes : rt' = AttemptStep(rt, o)
    /\ UNCHANGED pageVars

RouteSleep ==
    /\ rt.pc = "sleep"
    /\ rt' = SleepStep(rt)
    /\ UNCHANGED pageVars

RouteFinish ==
    /\ rt.pc = "after"
    /\ \E body \in Bodies(rt.route) : rt' = FinishStep(rt, body)
    /\ UNCHANGED pageVars

\* The page's fetch of the route settles. verdict: what the batch decides
\* to do with what it got (lines 263-272 for generate, 294-299 for send);
\* single: what handlePreview (154-156) and handleSend (191-196) decide.
PageReceives ==
    /\ rt.pc = "done"
    /\ \E seen \in {Answer(rt), Rejected, Garbled(200), Garbled(502)} :
          rt' = [rt EXCEPT !.pc = "seen", !.seen = seen,
                   !.verdict =
                      IF rt.route = "generate"
                      THEN (IF BatchGenUsable(seen) THEN "send" ELSE "failed")
                      ELSE (IF BatchSendSucceeded(seen) THEN "sent" ELSE "failed"),
                   !.single =
                      IF rt.route = "generate"
                      THEN (IF PreviewShown(seen) >= 0 THEN "shown" ELSE "failed")
                      ELSE (IF SingleSendSucceeded(seen) THEN "sent" ELSE "failed")]
    /\ UNCHANGED pageVars

RouteReturn ==
    /\ rt.pc = "seen"
    /\ rt' = RouteIdle
    /\ UNCHANGED pageVars

NextForwarder ==
    \/ RouteStart
    \/ RouteAttempt
    \/ RouteSleep
    \/ RouteFinish
    \/ PageReceives
    \/ RouteReturn

SpecForwarder == Init /\ [][NextForwarder]_vars

Next ==
    \/ FetchLeadsResponse
    \/ fetchLeads
    \/ handleSelectLead
    \/ handleSelectAll
    \/ ClearSelection
    \/ DismissResults
    \/ handlePreview
    \/ handleRegenerate
    \/ PreviewResponse
    \/ handleSend
    \/ SendResponse
    \/ CloseModal
    \/ handleBatchSend
    \/ BatchGenResponse
    \/ BatchSendResponse
    \/ BatchDelayDone

Spec == Init /\ [][Next]_vars

\* The batch with the controls of the generation: selection, tone,
\* variations and creativity can change at any time, also while a batch runs.
NextSettings ==
    \/ FetchLeadsResponse
    \/ handleSelectLead
    \/ handleSelectAll
    \/ ClearSelection
    \/ setTone
    \/ setVariantsCount
    \/ setCreativity
    \/ handleBatchSend
    \/ BatchGenResponse
    \/ BatchSendResponse
    \/ BatchDelayDone

SpecSettings == Init /\ [][NextSettings]_vars

\* --- the batch with its fetches served by the routes
\* What the route reads of a fetch of the batch: the query q of the preview
\* fetch, the JSON body of the send fetch with its consent_snapshot.
BatchRouteData(req) ==
    [leadId |-> req.lead,
     consent |-> IF req.kind = "send" THEN "full" ELSE "absent",
     variants |-> IF req.kind = "generate" THEN batch.q.variants ELSE 0]

\* A route starts to handle the fetch the batch is waiting for.
BatchRouteStart ==
    /\ rt.pc = "idle"
    /\ \E req \in {r \in net : r.by = "batch"} :
          rt' = RouteBegin(req.kind, TRUE, BatchRouteData(req))
    /\ UNCHANGED pageVars

\* One attempt of the route's loop: the backend receives a request for the
\* lead and answers it with o.
BatchRouteAttempt ==
    /\ rt.pc = "fetch"
    /\ \E o \in AttemptOutcomes :
          /\ rt' = AttemptStep(rt, o)
          /\ batch' =
                IF rt.route = "generate"
                THEN [batch EXCEPT !.backend[rt.data.leadId].generate = @ + 1]
                ELSE [batch EXCEPT
                        !.backend[rt.data.leadId].send = @ + 1,
                        !.backend[rt.data.leadId].sendOk =
                            @ + (IF o.kind = "ok" THEN 1 ELSE 0)]
    /\ UNCHANGED <<leads, loadingLeads, selectedLead, preview, loadingPreview,
                   sending, selectedLeadIds, batchSending, batchProgress,
                   batchResults, net, outcomes, lastSend, settings>>

\* What the fetch of the batch gives the page once the route has answered.
BatchSeen == {Answer(rt), Rejected, Garbled(200), Garbled(502)}

\* The preview fetch of the batch settles with the route's answer.
BatchGenServed ==
    /\ rt.pc = "done"
    /\ rt.route = "generate"
    /\ \E req \in net, seen \in BatchSeen :
          BatchGenSettles(req, [usable |-> BatchGenUsable(seen),
                                class |-> GenClass(seen)])
    /\ rt' = RouteIdle

\* The send fetch of the batch settles with the route's answer.
BatchSendServed ==
    /\ rt.pc = "done"
    /\ rt.route = "send"
    /\ \E req \in net, seen \in BatchSeen :
          BatchSendSettles(req, BatchSendSucceeded(seen))
    /\ rt' = RouteIdle

NextBackend ==
    \/ FetchLeadsResponse
    \/ handleSelectLead
    \/ handleBatchSend
    \/ BatchRouteStart
    \/ BatchRouteAttempt
    \/ RouteSleep
    \/ RouteFinish
    \/ BatchGenServed
    \/ BatchSendServed
    \/ BatchDelayDone

SpecBackend == Init /\ [][NextBackend]_vars

\* The preview modal alone, opened for any lead of the table.
NextModal ==
    \/ FetchLeadsResponse
    \/ handlePreviewAny
    \/ handleRegenerate
    \/ PreviewResponse
    \/ handleSend
    \/ SendResponse
    \/ CloseModal

SpecModal == Init /\ [][NextModal]_vars

\* The page when every fetch of the batch settles (the route answers after
\* at most three attempts, or the fetch rejects) and its timer fires.
SpecBatchSettles ==
    /\ Spec
    /\ WF_vars(BatchGenResponse)
    /\ WF_vars(BatchSendResponse)
    /\ WF_vars(BatchDelayDone)

\* ======================================================== the forwarder
RouteEnded == rt.pc \in {"done", "seen"}

NoSuccessIn(log) == \A j \in DOMAIN log : log[j].kind # "ok"

FailedBefore(log, k) == \A j \in 1..(k - 1) : log[j].kind # "ok"

\* The error a failed attempt shows to the route.
ObservedError(o) ==
    [kind |-> IF o.kind = "status" THEN "backend" ELSE "transport",
     text |-> o.text]

\* A 2xx body the route can turn into its answer.
UsableBody(route, body) ==
    /\ body.parse \in {"obj", "null"}
    /\ route = "generate" => body.variants >= 0

\* C3 as stated: when the backend fails the first k-1 attempts and answers
\* attempt k with a success status, the call makes exactly k attempts, none
\* after the success, and the route answers with success.
C3_Original ==
    \A k \in DOMAIN rt.log :
       (rt.log[k].kind = "ok" /\ FailedBefore(rt.log, k)) =>
          /\ Len(rt.log) = k
          /\ rt.attempts = k
          /\ rt.pc \notin {"fetch", "sleep"}
          /\ RouteEnded => rt.result.status = 200

\* C3 (amended): as C3, where the route answers with success provided the
\* body of the 2xx answer parses (and, for generate, carries a variants list).
C3_SuccessOnAttemptK ==
    \A k \in DOMAIN rt.log :
       (rt.log[k].kind = "ok" /\ FailedBefore(rt.log, k)) =>
          /\ Len(rt.log) = k
          /\ rt.attempts = k
          /\ rt.pc \notin {"fetch", "sleep"}
          /\ (RouteEnded /\ UsableBody(rt.route, rt.body)) => rt.result.status = 200

C3_Witness ==
    /\ rt.pc = "done"
    /\ Len(rt.log) = 3
    /\ rt.log[1].kind # "ok"
    /\ rt.log[2].kind # "ok"
    /\ rt.log[3].kind = "ok"
    /\ rt.attempts = 3
    /\ rt.result.status = 200

\* C4: a call makes at most 3 attempts; consecutive attempts are separated
\* by the delay; when all 3 attempts fail the call ends with one failure
\* answer after exactly 3 attempts and at least 2 delays.
C4_AtMostThreeAttempts ==
    /\ rt.attempts <= MaxAttempts
    /\ Len(rt.log) = rt.attempts
    /\ rt.delays >= rt.attempts - 1
    /\ (RouteEnded /\ rt.log # <<>> /\ NoSuccessIn(rt.log)) =>
          /\ rt.attempts = MaxAttempts
          /\ rt.delays >= MaxAttempts - 1
          /\ rt.result.status = 500

C4_Witness ==
    /\ rt.pc = "done"
    /\ rt.attempts = 3
    /\ NoSuccessIn(rt.log)
    /\ rt.delays >= 2
    /\ rt.result.status = 500

\* C5: when all 3 attempts fail, the failure the route answers with carries
\* the error of the 3rd attempt (transport error or backend error text),
\* not the error of an earlier attempt.
C5_LastErrorSurfaced ==
    (RouteEnded /\ Len(rt.log) = MaxAttempts /\ NoSuccessIn(rt.log)) =>
       /\ rt.result.status = 500
       /\ rt.result.details = ObservedError(rt.log[MaxAttempts])

C5_Witness ==
    /\ rt.pc = "done"
    /\ Len(rt.log) = 3
    /\ NoSuccessIn(rt.log)
    /\ ObservedError(rt.log[1]) # ObservedError(rt.log[3])
    /\ ObservedError(rt.log[2]) # ObservedError(rt.log[3])
    /\ rt.result.details = ObservedError(rt.log[3])

\* The send outcomes C8 calls a success: the transport call succeeded, no
\* ok:false, no status field with a value other than "success".
ClaimedSendSuccess(res) ==
    /\ ResOk(res)
    /\ res.parse = "obj"
    /\ res.ok # "false"
    /\ res.bstatus \in {"absent", "success"}

\* C8: in batch mode a send is classified as success if and only if the
\* transport call succeeded, the payload has no ok:false and no status field
\* whose value differs from "success" (an empty status included).
C8_Original ==
    (rt.pc = "seen" /\ rt.route = "send") =>
       ((rt.verdict = "sent") <=> ClaimedSendSuccess(rt.seen))

\* ============================================================ the batch
StatusOf(ls, id) == ls[CHOOSE k \in DOMAIN ls : ls[k].id = id].status

OutcomeIds == {outcomes[k].id : k \in DOMAIN outcomes}

CountStatus(st) == Cardinality({k \in DOMAIN outcomes : outcomes[k].status = st})

BatchRequests == {r \in net : r.by = "batch"}

\* A step in which the batch records the outcome of a lead.
Recorded == Len(outcomes') = Len(outcomes) + 1

\* C1: the final tally of a batch over N selected leads has total = N and
\* sent + failed = total, whatever the generate and send calls returned.
C1_TallyAccountsForEveryLead ==
    batchResults # NullResults =>
       /\ batchResults.total = Cardinality(batch.input)
       /\ batchResults.sent + batchResults.failed = batchResults.total

C1_Witness ==
    /\ batchResults = [sent |-> 1, failed |-> 1, total |-> 2]
    /\ Cardinality(batch.input) = 2

\* C2: a send request of the batch is in flight only after the generate
\* call of that lead returned at least one variant; a lead whose generate
\* call failed or returned no variant gets no send request and is failed.
C2_SendOnlyAfterUsableGenerate ==
    /\ \A r \in BatchRequests :
          r.kind = "send" =>
             /\ batch.gen = "ok"
             /\ r.lead = batch.selectedLeads[batch.i + 1]
    /\ \A k \in DOMAIN outcomes :
          /\ outcomes[k].sends <= 1
          /\ ~outcomes[k].genOk =>
                (outcomes[k].sends = 0 /\ outcomes[k].status = "failed")
          /\ outcomes[k].genOk => outcomes[k].sends = 1

C2_Witness ==
    /\ Len(outcomes) = 2
    /\ ~outcomes[1].genOk
    /\ outcomes[1].sends = 0
    /\ outcomes[1].status = "failed"
    /\ outcomes[2].sends = 1

\* C6: every selected lead is processed exactly once per batch pass and no
\* failure of a lead ends the batch: the failing lead is marked failed and
\* the batch completes only when every selected lead has its outcome.
C6_EveryLeadProcessedOnce ==
    /\ \A k, m \in DOMAIN outcomes : k # m => outcomes[k].id # outcomes[m].id
    /\ OutcomeIds \subseteq batch.input
    /\ batch.pc # "idle" =>
          Len(outcomes) = batch.i + (IF batch.pc = "delay" THEN 1 ELSE 0)
    /\ batch.pc = "idle" => OutcomeIds = batch.input
    /\ \A k \in DOMAIN outcomes : ~outcomes[k].verdict => outcomes[k].status = "failed"

C6_Witness ==
    /\ batch.pc = "idle"
    /\ Len(outcomes) = 2
    /\ ~outcomes[1].genOk
    /\ outcomes[1].status = "failed"
    /\ outcomes[2].sends = 1
    /\ outcomes[2].status = "failed"

\* The outcomes are those of the selected leads in the order of the lead list
\* (the list is in ascending order of id).
InInputOrder ==
    \A k \in DOMAIN outcomes :
       /\ outcomes[k].id \in batch.input
       /\ \A j \in batch.input :
             (j < outcomes[k].id) <=> (\E m \in 1..(k - 1) : outcomes[m].id = j)

C9_Original ==
    (batch.pc = "idle" /\ batchResults # NullResults) =>
       /\ \A k \in DOMAIN outcomes :
             StatusOf(leads, outcomes[k].id) = outcomes[k].status
       /\ batchResults.sent = CountStatus("sent")
       /\ batchResults.failed = CountStatus("failed")

\* C9 (amended): when the batch records a lead's outcome it sets that lead's
\* status to sent if the send was classified as success and to failed
\* otherwise, and the tally's sent / failed are the numbers of leads the
\* batch set to sent / failed.
C9_RecordedStatusMatches ==
    /\ [](batchResults # NullResults =>
            /\ batchResults.sent = CountStatus("sent")
            /\ batchResults.failed = CountStatus("failed"))
    /\ [][Recorded =>
            LET e == outcomes'[Len(outcomes')]
            IN  /\ StatusOf(leads', e.id) = e.status
                /\ e.status = IF e.verdict THEN "sent" ELSE "failed"]_vars

C9_Witness ==
    /\ batch.pc = "idle"
    /\ batchResults = [sent |-> 1, failed |-> 1, total |-> 2]
    /\ outcomes[1].status = "sent"
    /\ outcomes[2].sends = 1
    /\ outcomes[2].status = "failed"
    /\ StatusOf(leads, 1) = "sent"
    /\ StatusOf(leads, 2) = "failed"

\* C10: at most one request of the batch is in flight; a request for a lead
\* is in flight only when the outcomes of all leads before it are recorded
\* and the delay after them is over; none is in flight during the delay.
C10_OneRequestInFlight ==
    /\ Cardinality(BatchRequests) <= 1
    /\ batch.pc \in {"idle", "delay"} => BatchRequests = {}
    /\ \A r \in BatchRequests :
          /\ r.kind = batch.pc
          /\ r.lead = batch.selectedLeads[batch.i + 1]
          /\ Len(outcomes) = batch.i

C10_Witness ==
    /\ batch.pc = "generate"
    /\ batch.i = 1
    /\ Len(outcomes) = 1
    /\ BatchRequests = {BatchRequest("generate", 2)}

\* ========================================================= lead status
\* C11 as stated: after any sequence of single sends and batch sends, the
\* status of each lead is the outcome (sent or failed) of the latest
\* completed send attempt for that lead.
C11_Original ==
    \A k \in DOMAIN leads :
       lastSend[leads[k].id] # "none" =>
          leads[k].status = lastSend[leads[k].id]

\* ================================================ the forwarded request
\* The route has called the backend's /send with rt.forward.
SendForwarded == rt.route = "send" /\ rt.attempts >= 1

\* C12 as stated: every /send request forwarded to the backend has as
\* recipient_email the email of the lead the send is for.
C12_Original ==
    SendForwarded => rt.forward.recipient_email = EmailOf(rt.data.leadId)

\* C13 as stated: every /send request forwarded to the backend carries a
\* consent snapshot with source, captured_at and exact_text, also when the
\* incoming send-email request lacks it.
C13_Original ==
    SendForwarded => rt.forward.consent_snapshot = "full"

\* ===================================================== batch completion
\* C14: a batch that has started runs to completion: when every call of
\* the batch returns or errors, batchSending becomes false again with the
\* final tally shown; nothing takes batchSending back before every lead of
\* the batch has its outcome, and no step of the user changes the batch's
\* position or its list of leads.
C14_BatchRunsToCompletion ==
    /\ batchSending ~> (~batchSending /\ batch.pc = "idle"
                           /\ batchResults # NullResults)
    /\ [][batchSending =>
            /\ ~batchSending' =>
                  /\ Len(outcomes') = Len(batch.selectedLeads)
                  /\ batchResults'.total = Len(batch.selectedLeads)
            /\ batchSending' =>
                  /\ batch'.selectedLeads = batch.selectedLeads
                  /\ batch'.i >= batch.i
                  /\ Len(outcomes') >= Len(outcomes)]_vars

C14_Witness ==
    /\ ~batchSending
    /\ batch.pc = "idle"
    /\ Len(outcomes) = 2
    /\ batchResults = [sent |-> 0, failed |-> 2, total |-> 2]

\* ================================================ send classification
\* A 2xx send answer whose payload signals failure: ok is false, or it has
\* a status field with a value other than "success".
SignalsFailure(res) ==
    /\ ResOk(res)
    /\ res.parse = "obj"
    /\ res.ok = "false" \/ res.bstatus \notin {"absent", "success"}

\* C15 as stated: neither handleSend nor handleBatchSend marks the lead as
\* sent for a 2xx send answer whose payload signals failure.
C15_Original ==
    (rt.pc = "seen" /\ rt.route = "send" /\ SignalsFailure(rt.seen)) =>
       (rt.single # "sent" /\ rt.verdict # "sent")

\* ================================================== error normalisation
\* Some attempt got a success status and the body read after the loop parses.
ParseableSuccess ==
    /\ \E k \in DOMAIN rt.log : k <= MaxAttempts /\ rt.log[k].kind = "ok"
    /\ rt.body.parse \in {"obj", "null"}

\* C16: a route call ends with an answer of the handler, 200 or 500; it is
\* 200 only if some attempt of the 3 returned a success status with a
\* parseable body; in every other case (transport errors, non-2xx answers,
\* an unparseable body, an unparseable incoming request) it is 500 with an
\* error body, which for send-email has ok false.
C16_FailuresNormalised ==
    RouteEnded =>
       /\ rt.result.status \in {200, 500}
       /\ rt.result.status = 200 => ParseableSuccess
       /\ ~ParseableSuccess => rt.result.status = 500
       /\ rt.result.status = 500 =>
             /\ rt.result.parse = "obj"
             /\ rt.result.details # NoError
             /\ rt.route = "send" => rt.result.ok = "false"

C16_Witness ==
    /\ rt.pc = "done"
    /\ rt.route = "send"
    /\ rt.attempts = 0
    /\ rt.result.status = 500
    /\ rt.result.ok = "false"
    /\ rt.result.details = ParseError

\* ======================================================== retry policy
\* C18 as stated: a call that makes k attempts (1 <= k <= 3) has waited
\* exactly k - 1 delays when it returns its outcome, success or failure.
C18_Original ==
    (RouteEnded /\ rt.attempts >= 1) => rt.delays = rt.attempts - 1

\* The kinds of failure of an attempt.
FailureKind(o) ==
    CASE o.kind = "transport" -> "transport"
      [] o.kind = "status" /\ o.text = "404" -> "4xx"
      [] o.kind = "status" -> "5xx"
      [] OTHER -> "none"

\* C19: a failure on attempt i < 3 is followed by one delay and by attempt
\* i + 1, whatever its kind (transport error, 4xx, 5xx): while it is the
\* latest attempt the call is in the delay or about to fetch again, and the
\* call has waited i - 1 delays before this delay and i after it.
C19_SamePolicyForEveryFailure ==
    \A i \in DOMAIN rt.log :
       (i < MaxAttempts /\ FailureKind(rt.log[i]) \in {"transport", "4xx", "5xx"}) =>
          /\ rt.delays >= i - 1
          /\ Len(rt.log) = i =>
                /\ rt.pc \in {"sleep", "fetch"}
                /\ rt.pc = "sleep" => rt.delays = i - 1
                /\ rt.pc = "fetch" => rt.delays = i
          /\ Len(rt.log) > i => rt.delays >= i

C19_Witness ==
    /\ rt.pc = "done"
    /\ Len(rt.log) = 3
    /\ FailureKind(rt.log[1]) = "4xx"
    /\ FailureKind(rt.log[2]) = "transport"
    /\ rt.log[3].kind = "ok"
    /\ rt.delays = 2

\* C20 as stated: a 2xx answer whose body cannot be parsed is a failed
\* attempt under the same retry policy: the call ends for it only with the
\* 3 attempts used up and then answers with a failure.
C20_Original ==
    (RouteEnded /\ rt.body.parse = "bad") =>
       /\ rt.attempts = MaxAttempts
       /\ rt.result.status = 500

\* ========================================================= batch order
\* The leads the batch has visited so far, in the order of the visits: the
\* leads with a recorded outcome, then the lead being processed.
Visited ==
    [k \in DOMAIN outcomes |-> outcomes[k].id]
      \o (IF batch.pc \in {"generate", "send"}
          THEN <<batch.selectedLeads[batch.i + 1]>> ELSE <<>>)

\* C21: a batch visits its leads in the order of the lead list (ascending
\* id) restricted to the selection it started with: the k-th lead visited
\* is the k-th selected lead of the list, whatever the order of the clicks
\* that made the selection and whatever the outcomes of the leads before.
C21_FixedVisitingOrder ==
    \A k \in DOMAIN Visited :
       /\ Visited[k] \in batch.input
       /\ Cardinality({j \in batch.input : j < Visited[k]}) = k - 1

C21_Witness ==
    /\ batch.pc = "send"
    /\ batch.input = {1, 2}
    /\ Visited = <<1, 2>>
    /\ outcomes[1].status = "failed"

\* ====================================================== batch progress
\* C22: while a batch runs, batchProgress.total is the number of leads of
\* the batch and completed + failed is the number of leads with a recorded
\* outcome, at most total; while a lead is processed the marker names it;
\* after a lead the marker names the next lead of the batch, or is cleared
\* after the last one, and the inter-lead delay runs with no request of the
\* batch in flight: the next lead starts only when the delay is over.
C22_ProgressCounters ==
    /\ [](batchSending =>
            /\ batchProgress # NullProgress
            /\ batchProgress.total = Len(batch.selectedLeads)
            /\ batchProgress.total = Cardinality(batch.input)
            /\ batchProgress.completed + batchProgress.failed = Len(outcomes)
            /\ Len(outcomes) <= batchProgress.total
            /\ batch.pc \in {"generate", "send"} =>
                  batchProgress.current = batch.selectedLeads[Len(outcomes) + 1]
            /\ batch.pc = "delay" =>
                  /\ BatchRequests = {}
                  /\ batchProgress.current =
                        IF Len(outcomes) < batchProgress.total
                        THEN batch.selectedLeads[Len(outcomes) + 1] ELSE 0)
    /\ [][Recorded => batch'.pc = "delay"]_vars
    /\ [][(batchSending /\ BatchRequests = {} /\ BatchRequests' # {}) =>
             batch.pc = "delay"]_vars

C22_Witness ==
    /\ batchSending
    /\ batch.pc = "delay"
    /\ Len(outcomes) = 1
    /\ batchProgress = [total |-> 2, completed |-> 0, failed |-> 1, current |-> 2]

\* ==================================================== batch parameters
\* C23: every preview request of a batch has variants = 1, whatever the
\* Variations select says, and the tone and creativity of the moment the
\* batch started; changing tone, creativity, variations or the selection
\* while the batch runs changes neither these parameters nor the leads of
\* the batch.
C23_BatchParametersFixed ==
    /\ [](batch.pc \in {"generate", "send"} =>
            batch.q = [tone |-> batch.tone, variants |-> 1,
                       creativity |-> batch.creativity])
    /\ [][(~batchSending /\ batchSending') =>
             /\ batch'.tone = tone
             /\ batch'.creativity = creativity
             /\ batch'.input = selectedLeadIds]_vars
    /\ [][(batchSending /\ batchSending') =>
             /\ batch'.tone = batch.tone
             /\ batch'.creativity = batch.creativity
             /\ batch'.input = batch.input
             /\ batch'.selectedLeads = batch.selectedLeads]_vars

C23_Witness ==
    /\ batch.pc = "generate"
    /\ batch.i = 1
    /\ batch.input = {1, 2}
    /\ selectedLeadIds = {1}
    /\ tone # batch.tone
    /\ creativity # batch.creativity
    /\ variantsCount = 5
    /\ batch.q = [tone |-> "Friendly", variants |-> 1, creativity |-> 6]

\* ===================================================== one batch only
\* A step in which handleBatchSend starts its loop.
BatchStarts ==
    /\ batch'.pc = "generate"
    /\ batch'.i = 0
    /\ batch' # batch

\* C24: at most one batch is in progress: handleBatchSend starts its loop
\* only when no batch is running (batchSending false, no request of a batch
\* in flight), batchSending is true exactly while the loop runs, and every
\* status and counter update of a batch is for the lead at its own index.
C24_OneBatchAtATime ==
    /\ [](batchSending <=> batch.pc # "idle")
    /\ [][BatchStarts =>
             /\ ~batchSending
             /\ batch.pc = "idle"
             /\ BatchRequests = {}]_vars
    /\ [][Recorded =>
             /\ batchSending
             /\ outcomes'[Len(outcomes')].id = batch.selectedLeads[batch.i + 1]
             /\ batch'.sentCount + batch'.failedCount
                   = batch.sentCount + batch.failedCount + 1]_vars

C24_Witness ==
    /\ batchSending
    /\ batch.pc = "send"
    /\ batch.i = 0
    /\ selectedLeadIds = {2}
    /\ batch.input = {1}
    /\ batchResults = NullResults

\* ==================================================== batch job state
\* C25: batchProgress exists exactly while a batch runs; batchResults is
\* null throughout a running batch, a start clearing the tally of the batch
\* before; the step that ends a batch resets batchProgress, sets the tally
\* and batchSending false and clears the selection.
C25_JobStateLifecycle ==
    /\ [](/\ batchSending <=> batchProgress # NullProgress
          /\ batchSending => batchResults = NullResults)
    /\ [][(~batchSending /\ batchSending') =>
             /\ batchProgress' # NullProgress
             /\ batchProgress'.completed = 0
             /\ batchProgress'.failed = 0
             /\ batchResults' = NullResults
             /\ Len(outcomes') = 0]_vars
    /\ [][(batchSending /\ ~batchSending') =>
             /\ batchProgress' = NullProgress
             /\ batchResults' # NullResults
             /\ selectedLeadIds' = {}]_vars

C25_Witness ==
    /\ ~batchSending
    /\ batchProgress = NullProgress
    /\ batchResults = [sent |-> 2, failed |-> 0, total |-> 2]
    /\ selectedLeadIds = {}
    /\ batch.input = {1, 2}

\* ======================================================= preview modal
\* C26 as stated: a failed handlePreview, Regenerate included, leaves the
\* preview that was displayed before the call in place. Regenerate is only
\* offered with a preview displayed, so when its fetch settles with the
\* modal still on that lead, a preview is displayed: the new one, or on
\* failure the one from before.
C26_Original ==
    [][\A req \in PreviewRequests :
          (req.by = "regenerate" /\ req \notin net' /\ selectedLead = req.lead)
             => preview' # NullPreview]_vars

\* C29 as stated: a preview that is displayed was generated for the lead
\* the modal is open for.
C29_Original ==
    (selectedLead # 0 /\ preview # NullPreview) => preview.lead = selectedLead

\* C27 as stated: a status recorded for a lead (sent or failed) persists:
\* no step, a Refresh during or after a batch included, returns the lead to
\* pending or removes it from the list.
C27_Original ==
    [][\A k \in DOMAIN leads :
          leads[k].status \in {"sent", "failed"}
            => \E j \in DOMAIN leads' :
                  /\ leads'[j].id = leads[k].id
                  /\ leads'[j].status \in {"sent", "failed"}]_vars

\* The route has called the backend's /generate with rt.forward.
GenerateForwarded == rt.route = "generate" /\ rt.attempts >= 1

\* C28 as stated: whatever variant count the email-preview route is asked
\* for, the variants value it forwards to /generate lies in 1..5.
C28_Original ==
    GenerateForwarded => rt.forward.variants \in 1..VariantsCap

\* ============================================= load on the backend
RECURSIVE BackendTotal(_)
\* Requests the backend has received for the leads 1..n during the batch.
BackendTotal(n) ==
    IF n = 0 THEN 0
    ELSE batch.backend[n].generate + batch.backend[n].send
           + BackendTotal(n - 1)

\* C30: during one batch the backend receives for every lead at most 3
\* /generate and at most 3 /send requests, answers at most one /send of the
\* lead with a success status, receives nothing for a lead outside the
\* batch, and so at most 6N requests for a batch of N leads.
C30_BackendRequestsBounded ==
    /\ \A id \in LeadIds :
          /\ batch.backend[id].generate <= MaxAttempts
          /\ batch.backend[id].send <= MaxAttempts
          /\ batch.backend[id].sendOk <= 1
          /\ id \notin batch.input => batch.backend[id] = NoBackend[id]
    /\ BackendTotal(NumLeads) <= 2 * MaxAttempts * Len(batch.selectedLeads)

\* A batch of two leads has reached the bound: three /generate and three
\* /send requests for each lead, the third /send answered with success.
C30_Witness ==
    /\ Len(batch.selectedLeads) = 2
    /\ BackendTotal(NumLeads) = 2 * MaxAttempts * 2
    /\ \A id \in batch.input : batch.backend[id].sendOk = 1

====
